---- MODULE Spec2Model ----
(***************************************************************************)
(* Movie discovery application: the App component (search input, debounce, *)
(* fetchMovies pipeline, retry), the useDebounce hook and the Appwrite     *)
(* popularity ledger (updateSearchCount, getTrendingMovies).               *)
(*                                                                         *)
(* Strings are sequences of one-character strings, so that trim() and      *)
(* toLowerCase() are computed and not assumed.  Every action is one        *)
(* run-to-completion step of the JavaScript event loop: an event handler,  *)
(* a timer callback or the continuation of an await, together with the     *)
(* React re-render and the effects that the step's state updates trigger.  *)
(***************************************************************************)
EXTENDS Integers, Sequences, FiniteSets, TLC

\* ------------------------------------------------------------------ bounds
MaxLen == 1
MaxCalls == 4
MaxRecords == 3
MaxClock == 1
TicksPerDelay == 2
MaxStore == 3
MaxCount == 2
LargeLimit == 101

\* --------------------------------------------------------------- constants
delay == 500

\* getTrendingMovies(5) is what loadTrendingMovies asks for
TrendingLimit == 5

Quantum == delay \div TicksPerDelay

\* ----------------------------------------------------------------- strings
Alphabet == {"a", "A", " "}

RECURSIVE StringsUpTo(_)
StringsUpTo(n) ==
  IF n = 0 THEN {<<>>}
  ELSE LET shorter == StringsUpTo(n - 1)
       IN shorter \cup {Append(s, c) : s \in {t \in shorter : Len(t) = n - 1}, c \in Alphabet}

Inputs == StringsUpTo(MaxLen)

IsWhitespace(c) == c = " "

RECURSIVE TrimStart(_)
TrimStart(s) ==
  IF s # <<>> /\ IsWhitespace(Head(s)) THEN TrimStart(Tail(s)) ELSE s

RECURSIVE TrimEnd(_)
TrimEnd(s) ==
  IF s # <<>> /\ IsWhitespace(s[Len(s)]) THEN TrimEnd(SubSeq(s, 1, Len(s) - 1)) ELSE s

NoTrim(s) == s

\* String.prototype.trim
Trim(s) == TrimEnd(TrimStart(s))

\* The lower-case letter of every upper-case letter.
Lower ==
  ("A" :> "a") @@
  ("B" :> "b") @@
  ("C" :> "c") @@
  ("D" :> "d") @@
  ("E" :> "e") @@
  ("F" :> "f") @@
  ("G" :> "g") @@
  ("H" :> "h") @@
  ("I" :> "i") @@
  ("J" :> "j") @@
  ("K" :> "k") @@
  ("L" :> "l") @@
  ("M" :> "m") @@
  ("N" :> "n") @@
  ("O" :> "o") @@
  ("P" :> "p") @@
  ("Q" :> "q") @@
  ("R" :> "r") @@
  ("S" :> "s") @@
  ("T" :> "t") @@
  ("U" :> "u") @@
  ("V" :> "v") @@
  ("W" :> "w") @@
  ("X" :> "x") @@
  ("Y" :> "y") @@
  ("Z" :> "z")

UpperLetters == DOMAIN Lower

LowerChar(c) == IF c \in UpperLetters THEN Lower[c] ELSE c

\* String.prototype.toLowerCase
ToLowerCase(s) == [i \in 1..Len(s) |-> LowerChar(s[i])]

\* String.prototype.includes
Includes(s, needle) ==
  \E i \in 1..(Len(s) - Len(needle) + 1) : SubSeq(s, i, i + Len(needle) - 1) = needle

\* The decimal digits of an HTTP status code, as `${response.status}` gives them.
Digit == <<"0", "1", "2", "3", "4", "5", "6", "7", "8", "9">>
Digits(n) == <<Digit[(n \div 100) + 1], Digit[((n \div 10) % 10) + 1], Digit[(n % 10) + 1]>>

SanitizeNoLowerCase(searchTerm) == Trim(searchTerm)

\* appwrite.js: const sanitizedTerm = searchTerm.trim().toLowerCase()
SanitizedTerm(searchTerm) == ToLowerCase(Trim(searchTerm))

\* Inputs that are words: one of them holds, in capitals, a word that
\* getErrorType looks for.
WordInputs == {<<>>, <<"a">>, <<"F", "E", "T", "C", "H">>}

Terms == {SanitizedTerm(s) : s \in Inputs \cup WordInputs}

\* ------------------------------------------------------ provider responses
NULL == "null"
\* null in a field that otherwise holds a URL (a base and a path)
NoUrl == <<>>

\* Two movie objects of the provider: one with a poster, one without.
MovieA == [id |-> 1, title |-> "T1", poster_path |-> "/p1", release_date |-> "2020", vote_average |-> 7]
MovieB == [id |-> 2, title |-> "T2", poster_path |-> NULL, release_date |-> NULL, vote_average |-> 0]

ResultLists == {<<>>, <<MovieA>>, <<MovieB>>, <<MovieB, MovieA>>}

\* What `await fetch(...)` followed by `await response.json()` can produce.
HttpStatuses == {401, 404, 429, 500}

Outcomes ==
  {[type |-> "failedToFetch", status |-> 0, results |-> <<>>],
   [type |-> "badJson", status |-> 200, results |-> <<>>],
   [type |-> "noResultsField", status |-> 200, results |-> <<>>]}
  \cup {[type |-> "http", status |-> s, results |-> <<>>] : s \in HttpStatuses}
  \cup {[type |-> "ok", status |-> 200, results |-> r] : r \in ResultLists}

\* Two more movie objects and longer result lists: two results with a
\* poster around one without, and two results without a poster.
MovieC == [id |-> 3, title |-> "T3", poster_path |-> "/p3", release_date |-> "2021", vote_average |-> 8]
MovieD == [id |-> 4, title |-> "T4", poster_path |-> NULL, release_date |-> NULL, vote_average |-> 0]

LongResultLists == {<<MovieC, MovieB, MovieA>>, <<MovieB, MovieD>>}

\* The 2xx answers with a results list, the longer lists included.
ResultOutcomes ==
  {[type |-> "ok", status |-> 200, results |-> r] : r \in ResultLists \cup LongResultLists}

\* ------------------------------------------------------------ message texts
\* setErrorMessage argument when API_KEY is missing
TextConfig ==
  <<"T", "M", "D", "B", " ", "A", "P", "I", " ", "k", "e", "y",
    " ", "i", "s", " ", "n", "o", "t", " ", "c", "o", "n", "f",
    "i", "g", "u", "r", "e", "d", ".", " ", "P", "l", "e", "a",
    "s", "e", " ", "c", "h", "e", "c", "k", " ", "y", "o", "u",
    "r", " ", "e", "n", "v", "i", "r", "o", "n", "m", "e", "n",
    "t", " ", "v", "a", "r", "i", "a", "b", "l", "e", "s", ".">>

\* `No movies found for "${query}". Try different keywords.`, up to the query
TextNoMoviesFoundFor ==
  <<"N", "o", " ", "m", "o", "v", "i", "e", "s", " ", "f", "o",
    "u", "n", "d", " ", "f", "o", "r", " ", "\"">>

\* the same, after the query
TextTryDifferent ==
  <<"\"", ".", " ", "T", "r", "y", " ", "d", "i", "f", "f", "e",
    "r", "e", "n", "t", " ", "k", "e", "y", "w", "o", "r", "d",
    "s", ".">>

\* the message of an empty popular listing
TextNoMoviesAvailable ==
  <<"N", "o", " ", "m", "o", "v", "i", "e", "s", " ", "a", "v",
    "a", "i", "l", "a", "b", "l", "e", " ", "a", "t", " ", "t",
    "h", "e", " ", "m", "o", "m", "e", "n", "t", ".">>

\* userMessage of the catch block, by default
TextFailedToLoad ==
  <<"F", "a", "i", "l", "e", "d", " ", "t", "o", " ", "l", "o",
    "a", "d", " ", "m", "o", "v", "i", "e", "s", ".", " ", "P",
    "l", "e", "a", "s", "e", " ", "t", "r", "y", " ", "a", "g",
    "a", "i", "n", " ", "l", "a", "t", "e", "r", ".">>

\* userMessage when error.message includes '401'
TextInvalidCredentials ==
  <<"I", "n", "v", "a", "l", "i", "d", " ", "A", "P", "I", " ",
    "c", "r", "e", "d", "e", "n", "t", "i", "a", "l", "s", ".",
    " ", "P", "l", "e", "a", "s", "e", " ", "c", "h", "e", "c",
    "k", " ", "y", "o", "u", "r", " ", "T", "M", "D", "B", " ",
    "A", "P", "I", " ", "k", "e", "y", ".">>

\* userMessage when error.message includes '429'
TextTooManyRequests ==
  <<"T", "o", "o", " ", "m", "a", "n", "y", " ", "r", "e", "q",
    "u", "e", "s", "t", "s", ".", " ", "P", "l", "e", "a", "s",
    "e", " ", "w", "a", "i", "t", " ", "a", " ", "m", "o", "m",
    "e", "n", "t", " ", "a", "n", "d", " ", "t", "r", "y", " ",
    "a", "g", "a", "i", "n", ".">>

\* userMessage when error.message includes 'Failed to fetch'
TextNetworkError ==
  <<"N", "e", "t", "w", "o", "r", "k", " ", "e", "r", "r", "o",
    "r", ".", " ", "P", "l", "e", "a", "s", "e", " ", "c", "h",
    "e", "c", "k", " ", "y", "o", "u", "r", " ", "c", "o", "n",
    "n", "e", "c", "t", "i", "o", "n", " ", "a", "n", "d", " ",
    "t", "r", "y", " ", "a", "g", "a", "i", "n", ".">>

\* the message of the TypeError that fetch rejects with
TextFailedToFetch ==
  <<"F", "a", "i", "l", "e", "d", " ", "t", "o", " ", "f", "e",
    "t", "c", "h">>

\* the message of the SyntaxError that response.json() rejects with
TextBadJson ==
  <<"U", "n", "e", "x", "p", "e", "c", "t", "e", "d", " ", "e",
    "n", "d", " ", "o", "f", " ", "J", "S", "O", "N", " ", "i",
    "n", "p", "u", "t">>

\* `HTTP ${response.status}: ${response.statusText}`, up to the status
TextHttp ==
  <<"H", "T", "T", "P", " ">>

\* the needles of getErrorType and of the catch block
Needle401 == <<"4", "0", "1">>
Needle429 == <<"4", "2", "9">>
Needle404 == <<"4", "0", "4">>
Needle500 == <<"5", "0", "0">>
NeedleNetwork == <<"n", "e", "t", "w", "o", "r", "k">>
NeedleFetch == <<"f", "e", "t", "c", "h">>
NeedleNotFound == <<"n", "o", "t", " ", "f", "o", "u", "n", "d">>
NeedleServer == <<"s", "e", "r", "v", "e", "r">>

\* ---------------------------------------------------------------- messages
\* errorMessage: which message it is and the query quoted in it.
Msg(kind, query) == [kind |-> kind, query |-> query]
EmptyMsg == Msg("", <<>>)
ConfigMsg == Msg("TMDB API key is not configured", <<>>)
NoResultsMsg(query) ==
  IF query # <<>> THEN Msg("No movies found for", query)
  ELSE Msg("No movies available at the moment", <<>>)

\* The text of errorMessage, as it is displayed.
MessageText(m) ==
  CASE m.kind = "" -> <<>>
    [] m.kind = "TMDB API key is not configured" -> TextConfig
    [] m.kind = "No movies found for" -> TextNoMoviesFoundFor \o m.query \o TextTryDifferent
    [] m.kind = "No movies available at the moment" -> TextNoMoviesAvailable
    [] m.kind = "Invalid API credentials" -> TextInvalidCredentials
    [] m.kind = "Too many requests" -> TextTooManyRequests
    [] m.kind = "Network error" -> TextNetworkError
    [] m.kind = "Failed to load movies" -> TextFailedToLoad

\* response.statusText (empty over HTTP/2)
StatusText(status) == <<>>

\* error.message of what the try block of fetchMovies throws
ErrorText(o) ==
  CASE o.type = "http" -> TextHttp \o Digits(o.status) \o <<":", " ">> \o StatusText(o.status)
    [] o.type = "failedToFetch" -> TextFailedToFetch
    [] o.type = "badJson" -> TextBadJson

UserMessageGeneric(message) == Msg("Failed to load movies", <<>>)

\* the catch block of fetchMovies: userMessage chosen from error.message
UserMessageFor(message) ==
  IF Includes(message, Needle401) THEN Msg("Invalid API credentials", <<>>)
  ELSE IF Includes(message, Needle429) THEN Msg("Too many requests", <<>>)
  ELSE IF Includes(message, TextFailedToFetch) THEN Msg("Network error", <<>>)
  ELSE Msg("Failed to load movies", <<>>)

\* The userMessage of every outcome that throws.
Thrown == {o \in Outcomes : o.type \in {"http", "failedToFetch", "badJson"}}
UserMessages == [o \in Thrown |-> UserMessageFor(ErrorText(o))]

UserMessage(o) == UserMessages[o]

\* getErrorType(error), given error.message
GetErrorType(errorText) ==
  LET message == ToLowerCase(errorText)
  IN IF Includes(message, NeedleNetwork) \/ Includes(message, NeedleFetch) THEN "network"
     ELSE IF Includes(message, Needle404) \/ Includes(message, NeedleNotFound) THEN "search"
     ELSE IF Includes(message, Needle500) \/ Includes(message, NeedleServer) THEN "server"
     ELSE "general"

\* ------------------------------------------------------------------- state
VARIABLES
  phase,           \* "init" before the first effects ran, "mounted", "unmounted"
  API_KEY,         \* TRUE iff VITE_TMDB_API_KEY is set
  searchTerm,      \* useState('')
  debouncedValue,  \* useDebounce: useState(value)
  timers,          \* pending setTimeout handlers of useDebounce
  stableFor,       \* history: time for which searchTerm.trim() has kept its value
  movieList,       \* useState([])
  errorMessage,    \* useState('')
  isLoading,       \* useState(false)
  isRetrying,      \* useState(false)
  trendingMovies,  \* useState([])
  initialLoad,     \* useState(true)
  calls,           \* the fetchMovies / updateSearchCount calls in flight, in issue order
  issued,          \* number of calls issued so far
  trendingPc,      \* loadTrendingMovies: "idle", "loading", "done", "failed" (error logged)
  documents,       \* the Appwrite collection; a document's $id is its index
  now,             \* the wall clock read by new Date()
  searches,        \* history: per normalized term, searches that returned results
  shownStale,      \* history: the response shown was overtaken by a later call's
  burst            \* history: the input changes since the debounce timer last fired

vars == <<phase, API_KEY, searchTerm, debouncedValue, timers, stableFor, movieList,
          errorMessage, isLoading, isRetrying, trendingMovies, initialLoad, calls, issued,
          trendingPc, documents, now, searches, shownStale, burst>>

hookVars == <<searchTerm, debouncedValue, timers, stableFor>>
uiVars == <<movieList, errorMessage, isLoading, isRetrying, initialLoad>>
ledgerVars == <<documents, now>>

\* type={getErrorType({ message: errorMessage })}
ShownErrorType == GetErrorType(MessageText(errorMessage))

NoDocument ==
  [searchTerm |-> <<>>, count |-> 0, movie_id |-> 0, title |-> NULL,
   poster_url |-> NoUrl, release_date |-> NULL, vote_average |-> 0,
   firstSearched |-> 0, lastSearched |-> 0]

\* A document store that already holds a record of an earlier session.
SeedDoc ==
  [searchTerm |-> <<"a">>, count |-> 1, movie_id |-> MovieB.id, title |-> MovieB.title,
   poster_url |-> NoUrl, release_date |-> NULL, vote_average |-> 0,
   firstSearched |-> 0, lastSearched |-> 0]

\* The stores a session may start from.
InitialStores == {<<>>, <<SeedDoc>>}

NoBurst == [changes |-> "none", fired |-> FALSE, issued |-> 0]

InitWith(stores) ==
  /\ phase = "init"
  /\ API_KEY \in BOOLEAN
  /\ searchTerm = <<>>
  /\ debouncedValue = <<>>
  /\ timers = {}
  /\ stableFor = 0
  /\ movieList = <<>>
  /\ errorMessage = EmptyMsg
  /\ isLoading = FALSE
  /\ isRetrying = FALSE
  /\ trendingMovies = <<>>
  /\ initialLoad = TRUE
  /\ calls = <<>>
  /\ issued = 0
  /\ trendingPc = "idle"
  /\ documents \in stores
  /\ now = 0
  /\ searches = [t \in Terms |-> 0]
  /\ shownStale = FALSE
  /\ burst = NoBurst

\* The application starts on an empty collection.
Init == InitWith({<<>>})

\* The ledger client starts on any of the stores.
InitLedger == InitWith(InitialStores)

\* A record of the collection with a given term and counter.
DocWith(term, count) == [SeedDoc EXCEPT !.searchTerm = term, !.count = count]

\* The term of the i-th record of a store: i letters.
TermOf(i) == [j \in 1..i |-> "a"]

\* Collections of up to MaxStore records with counters 0..MaxCount, and a
\* collection of LargeLimit records, all with different positive counters.
SmallStores ==
  UNION {{[i \in 1..n |-> DocWith(TermOf(i), k[i])] : k \in [1..n -> 0..MaxCount]} : n \in 0..MaxStore}
LargeStore == [i \in 1..LargeLimit |-> DocWith(TermOf(i), LargeLimit + 1 - i)]
TrendingStores == SmallStores \cup {LargeStore}

\* The limits getTrendingMovies is called with.
Limits == (1..MaxStore) \cup {TrendingLimit, LargeLimit}

InitTrending == InitWith(TrendingStores)

\* ------------------------------------------------------------ useDebounce
\* setTimeout(() => setDebouncedValue(value), delay)
SetTimeout(ts, value) == ts \cup {[value |-> value, remaining |-> delay]}

CleanupMissing(ts) == ts

\* the effect's cleanup: return () => clearTimeout(handler)
Cleanup(ts) == {}

Due(ts) == {h \in ts : h.remaining <= 0}

Max(a, b) == IF a >= b THEN a ELSE b
Min(a, b) == IF a <= b THEN a ELSE b

\* Time passes by one quantum: pending timers get closer to their deadline.
Tick ==
  /\ phase = "mounted"
  /\ stableFor < delay \/ \E h \in timers : h.remaining > 0
  /\ timers' = {[h EXCEPT !.remaining = Max(0, h.remaining - Quantum)] : h \in timers}
  /\ stableFor' = Min(delay, stableFor + Quantum)
  /\ UNCHANGED <<phase, API_KEY, searchTerm, debouncedValue, uiVars, trendingMovies,
                 calls, issued, trendingPc, ledgerVars, searches, shownStale, burst>>

\* --------------------------------------------------------- fetchMovies
\* const endpoint = query ? `.../search/movie?query=...` : `.../discover/movie?...`
Endpoint(query) == IF query # <<>> THEN "/search/movie" ELSE "/discover/movie"

NewCall(query, isRetry, il) ==
  [query |-> query, isRetry |-> isRetry, initialLoad |-> il, pipeline |-> TRUE,
   endpoint |-> Endpoint(query), pc |-> "fetch", overtaken |-> FALSE,
   movie |-> MovieA, term |-> <<>>, found |-> 0, doc |-> NoDocument,
   first |-> 0, last |-> 0]

IssueCallCancelling(cs, query, isRetry, il) == <<NewCall(query, isRetry, il)>>

\* `await fetch(endpoint, API_OPTIONS)`: the request is issued; nothing is
\* done about the requests already in flight.
IssueCall(cs, query, isRetry, il) == Append(cs, NewCall(query, isRetry, il))

NeverSkips(query, il) == FALSE

\* if (!query && !initialLoad) return
SkipsFetch(query, il) == query = <<>> /\ ~il

ReachesNetwork(query, il) == ~SkipsFetch(query, il) /\ API_KEY

FetchMoviesStartNoKeyCheck(query, isRetry, il, st) ==
  IF SkipsFetch(query, il) THEN st
  ELSE [errorMessage |-> EmptyMsg,
        isLoading |-> IF isRetry THEN st.isLoading ELSE TRUE,
        isRetrying |-> IF isRetry THEN TRUE ELSE st.isRetrying,
        calls |-> IssueCall(st.calls, query, isRetry, il)]

\* The synchronous part of fetchMovies(query, isRetry), up to `await fetch`,
\* applied to the state st = [errorMessage, isLoading, isRetrying, calls].
FetchMoviesStart(query, isRetry, il, st) ==
  IF SkipsFetch(query, il) THEN st
  ELSE IF ~API_KEY THEN [st EXCEPT !.errorMessage = ConfigMsg]
  ELSE [errorMessage |-> EmptyMsg,
        isLoading |-> IF isRetry THEN st.isLoading ELSE TRUE,
        isRetrying |-> IF isRetry THEN TRUE ELSE st.isRetrying,
        calls |-> IssueCall(st.calls, query, isRetry, il)]

Current == [errorMessage |-> errorMessage, isLoading |-> isLoading,
            isRetrying |-> isRetrying, calls |-> calls]

\* The state st becomes the next state; a call that reached the network counts.
Assign(st, query, il, invoked) ==
  /\ errorMessage' = st.errorMessage
  /\ isLoading' = st.isLoading
  /\ isRetrying' = st.isRetrying
  /\ calls' = st.calls
  /\ issued' = IF invoked /\ ReachesNetwork(query, il) THEN issued + 1 ELSE issued

CallsLeft(query, il) == ReachesNetwork(query, il) => issued < MaxCalls

\* First commit: the effects of useDebounce, of the search and of trending run.
Mount ==
  /\ phase = "init"
  /\ phase' = "mounted"
  /\ timers' = SetTimeout(timers, Trim(searchTerm))
  /\ Assign(FetchMoviesStart(debouncedValue, FALSE, initialLoad, Current),
            debouncedValue, initialLoad, TRUE)
  /\ trendingPc' = "loading"
  /\ UNCHANGED <<API_KEY, searchTerm, debouncedValue, stableFor, movieList, trendingMovies,
                 initialLoad, ledgerVars, searches, shownStale, burst>>

\* onChange of the search input (disabled while isLoading || isRetrying).
Type(s) ==
  /\ phase = "mounted"
  /\ ~(isLoading \/ isRetrying)
  /\ s # searchTerm
  /\ searchTerm' = s
  /\ IF Trim(s) # Trim(searchTerm)
       THEN /\ timers' = SetTimeout(Cleanup(timers), Trim(s))
            /\ stableFor' = 0
            /\ burst' = [changes |-> IF stableFor < delay /\ ~burst.fired
                                         /\ burst.changes # "none"
                                      THEN "several" ELSE "one",
                         fired |-> FALSE, issued |-> 0]
       ELSE UNCHANGED <<timers, stableFor, burst>>
  /\ UNCHANGED <<phase, API_KEY, debouncedValue, uiVars, trendingMovies, calls, issued,
                 trendingPc, ledgerVars, searches, shownStale>>

\* The timer callback: setDebouncedValue(value); when the debounced value
\* changes the search effect runs fetchMovies(debouncedSearchTerm).
DebounceFire ==
  \E h \in Due(timers) :
    /\ phase = "mounted"
    /\ timers' = timers \ {h}
    /\ debouncedValue' = h.value
    /\ IF h.value # debouncedValue
         THEN /\ CallsLeft(h.value, initialLoad)
              /\ Assign(FetchMoviesStart(h.value, FALSE, initialLoad, Current),
                        h.value, initialLoad, TRUE)
         ELSE UNCHANGED <<errorMessage, isLoading, isRetrying, calls, issued>>
    /\ burst' = [burst EXCEPT !.fired = TRUE, !.issued = issued' - issued]
    /\ UNCHANGED <<phase, API_KEY, searchTerm, stableFor, movieList, trendingMovies,
                   initialLoad, trendingPc, ledgerVars, searches, shownStale>>

\* retryFetch: the "Try Again" button of ErrorMessage, rendered when
\* !isLoading && errorMessage, disabled while isRetrying.
RetryFetch ==
  /\ phase = "mounted"
  /\ ~isLoading /\ errorMessage # EmptyMsg /\ ~isRetrying
  /\ CallsLeft(debouncedValue, initialLoad)
  /\ Assign(FetchMoviesStart(debouncedValue, TRUE, initialLoad, Current),
            debouncedValue, initialLoad, TRUE)
  /\ UNCHANGED <<phase, API_KEY, hookVars, movieList, trendingMovies, initialLoad,
                 trendingPc, ledgerVars, searches, shownStale, burst>>

\* The hook is torn down: the cleanup of its effect runs.
Unmount ==
  /\ phase = "mounted"
  /\ phase' = "unmounted"
  /\ timers' = Cleanup(timers)
  /\ UNCHANGED <<API_KEY, searchTerm, debouncedValue, stableFor, uiVars, trendingMovies,
                 calls, issued, trendingPc, ledgerVars, searches, shownStale, burst>>

\* data.results.filter(movie => movie.poster_path)
MoviesWithPosters(results) == SelectSeq(results, LAMBDA m : m.poster_path # NULL)

ShownMoviesNoFallback(results) == MoviesWithPosters(results)

\* setMovieList(moviesWithPosters.length > 0 ? moviesWithPosters : data.results)
ShownMovies(results) ==
  IF Len(MoviesWithPosters(results)) > 0 THEN MoviesWithPosters(results) ELSE results

RemoveAt(cs, c) == [i \in 1..(Len(cs) - 1) |-> IF i < c THEN cs[i] ELSE cs[i + 1]]

\* The finally block of call c, run on the state st the body left; the
\* search effect runs again when initialLoad (a dependency of fetchMovies)
\* changes.
Reruns(c) == calls[c].initialLoad /\ initialLoad

FinallyState(c, st) ==
  LET cleared == [st EXCEPT !.isLoading = FALSE, !.isRetrying = FALSE,
                            !.calls = RemoveAt(st.calls, c)]
  IN IF Reruns(c) THEN FetchMoviesStart(debouncedValue, FALSE, FALSE, cleared) ELSE cleared

Finally(c, st) ==
  /\ Reruns(c) => CallsLeft(debouncedValue, FALSE)
  /\ Assign(FinallyState(c, st), debouncedValue, FALSE, Reruns(c))
  /\ initialLoad' = IF calls[c].initialLoad THEN FALSE ELSE initialLoad

LedgerReturnRaising(c) ==
  IF calls[c].pipeline
  THEN Finally(c, [Current EXCEPT !.errorMessage = Msg("Failed to load movies", <<>>)])
  ELSE /\ calls' = RemoveAt(calls, c)
       /\ UNCHANGED <<errorMessage, isLoading, isRetrying, initialLoad, issued>>

\* updateSearchCount returns to its caller: fetchMovies runs to its end.
LedgerReturn(c) ==
  IF calls[c].pipeline
  THEN Finally(c, Current)
  ELSE /\ calls' = RemoveAt(calls, c)
       /\ UNCHANGED <<errorMessage, isLoading, isRetrying, initialLoad, issued>>

\* ------------------------------------------------------- updateSearchCount
\* if (!searchTerm || !movie) return null; if (!sanitizedTerm) return null
ReturnsNullAtOnce(term) == term = <<>> \/ SanitizedTerm(term) = <<>>

\* The call c enters updateSearchCount(term, movie) and awaits listDocuments.
AwaitFind(call, term, movie) ==
  [call EXCEPT !.pc = "find", !.movie = movie, !.term = SanitizedTerm(term)]

PosterUrl(movie) ==
  IF movie.poster_path # NULL THEN <<"https://image.tmdb.org/t/p/w500", movie.poster_path>> ELSE NoUrl

\* Query.equal('searchTerm', sanitizedTerm)
Matching(docs, term) == {i \in DOMAIN docs : docs[i].searchTerm = term}

NextCountSame(doc) == doc.count

\* count: doc.count + 1
NextCount(doc) == doc.count + 1

\* new Date(): the clock never runs backwards
ClockReads == now..MaxClock

\* A response is applied: the calls issued earlier and still waiting for
\* theirs have been overtaken.
Overtaking(c) ==
  [i \in DOMAIN calls |-> IF i < c /\ calls[i].pc = "fetch"
                          THEN [calls[i] EXCEPT !.overtaken = TRUE] ELSE calls[i]]

\* A provider search that succeeded with a non-empty query and results.
Counted(query, o) == o.type = "ok" /\ Len(o.results) > 0 /\ query # <<>>

\* The response of the provider arrives: `await fetch` and `await
\* response.json()` resume, and the body of fetchMovies runs up to its next
\* await (the ledger call) or to its end.
ProviderRespond(c, o) ==
  /\ c \in DOMAIN calls
  /\ calls[c].pc = "fetch"
  /\ shownStale' = calls[c].overtaken
  /\ searches' = IF Counted(calls[c].query, o)
                 THEN [searches EXCEPT ![SanitizedTerm(calls[c].query)] = @ + 1]
                 ELSE searches
  /\ LET query == calls[c].query
         st == [Current EXCEPT !.calls = Overtaking(c)]
     IN IF o.type \notin {"ok", "noResultsField"}
        THEN \* throw -> catch -> finally
             /\ movieList' = <<>>
             /\ Finally(c, [st EXCEPT !.errorMessage = UserMessage(o)])
        ELSE IF o.type = "noResultsField" \/ Len(o.results) = 0
        THEN /\ movieList' = <<>>
             /\ Finally(c, [st EXCEPT !.errorMessage = NoResultsMsg(query)])
        ELSE /\ movieList' = ShownMovies(o.results)
             /\ IF query # <<>> /\ ~ReturnsNullAtOnce(query)
                THEN /\ calls' = [st.calls EXCEPT ![c] = AwaitFind(@, query, o.results[1])]
                     /\ UNCHANGED <<errorMessage, isLoading, isRetrying, initialLoad, issued>>
                ELSE Finally(c, st)
  /\ UNCHANGED <<phase, API_KEY, hookVars, trendingMovies, trendingPc, ledgerVars, burst>>

\* updateSearchCount(term, movie) is called on its own (it is exported).
UpdateSearchCount(term, movie) ==
  /\ phase = "init"
  /\ issued < MaxRecords
  /\ ~ReturnsNullAtOnce(term)
  /\ issued' = issued + 1
  /\ calls' = Append(calls, AwaitFind([NewCall(term, FALSE, FALSE) EXCEPT !.pipeline = FALSE],
                                      term, movie))
  /\ UNCHANGED <<phase, API_KEY, hookVars, uiVars, trendingMovies, trendingPc, ledgerVars,
                 searches, shownStale, burst>>

\* listDocuments resolves (or rejects): the call goes on to its write request.
LedgerFind(c, ok) ==
  /\ c \in DOMAIN calls
  /\ calls[c].pc = "find"
  /\ IF ~ok
     THEN /\ LedgerReturn(c)
          /\ UNCHANGED now
     ELSE /\ UNCHANGED <<errorMessage, isLoading, isRetrying, initialLoad, issued>>
          /\ IF Matching(documents, calls[c].term) # {}
             THEN \E i \in Matching(documents, calls[c].term), t \in ClockReads :
                    /\ now' = t
                    /\ calls' = [calls EXCEPT ![c].pc = "update", ![c].found = i,
                                              ![c].doc = documents[i], ![c].last = t]
             ELSE \E t1 \in ClockReads : \E t2 \in t1..MaxClock :
                    /\ now' = t2
                    /\ calls' = [calls EXCEPT ![c].pc = "create", ![c].first = t1,
                                              ![c].last = t2]
  /\ UNCHANGED <<phase, API_KEY, hookVars, movieList, trendingMovies, trendingPc,
                 documents, searches, shownStale, burst>>

\* The data of createDocument.
NewDocument(call) ==
  [searchTerm |-> call.term, count |-> 1, movie_id |-> call.movie.id,
   title |-> call.movie.title, poster_url |-> PosterUrl(call.movie),
   release_date |-> call.movie.release_date, vote_average |-> call.movie.vote_average,
   firstSearched |-> call.first, lastSearched |-> call.last]

\* The data of updateDocument, applied to the stored document.
UpdatedDocument(stored, call) ==
  [stored EXCEPT !.count = NextCount(call.doc), !.lastSearched = call.last,
                 !.title = call.movie.title, !.poster_url = PosterUrl(call.movie)]

\* The document store executes updateDocument / createDocument (or rejects).
LedgerWrite(c, ok) ==
  /\ c \in DOMAIN calls
  /\ calls[c].pc \in {"update", "create"}
  /\ IF ~ok
     THEN /\ LedgerReturn(c)
          /\ UNCHANGED documents
     ELSE /\ documents' = IF calls[c].pc = "update"
                          THEN [documents EXCEPT ![calls[c].found] = UpdatedDocument(@, calls[c])]
                          ELSE Append(documents, NewDocument(calls[c]))
          /\ calls' = [calls EXCEPT ![c].pc = "written"]
          /\ UNCHANGED <<errorMessage, isLoading, isRetrying, initialLoad, issued>>
  /\ UNCHANGED <<phase, API_KEY, hookVars, movieList, trendingMovies, trendingPc,
                 now, searches, shownStale, burst>>

\* The write's promise resolves: updateSearchCount returns its document.
LedgerResolve(c) ==
  /\ c \in DOMAIN calls
  /\ calls[c].pc = "written"
  /\ LedgerReturn(c)
  /\ UNCHANGED <<phase, API_KEY, hookVars, movieList, trendingMovies, trendingPc,
                 ledgerVars, searches, shownStale, burst>>

\* ------------------------------------------------------- getTrendingMovies
EligibleAny(docs) == DOMAIN docs

\* Query.greaterThan('count', 0)
Eligible(docs) == {i \in DOMAIN docs : docs[i].count > 0}

\* The sequences that take their i-th entry from cand[i], lo <= i <= hi,
\* and take no entry twice.
RECURSIVE Orderings(_, _, _)
Orderings(cand, lo, hi) ==
  IF lo > hi THEN {<<>>}
  ELSE IF lo = hi THEN {<<d>> : d \in cand[lo]}
  ELSE LET mid == (lo + hi) \div 2
           Apart(a, b) == \A i \in DOMAIN a, j \in DOMAIN b : a[i] # b[j]
       IN UNION {{a \o b : b \in {x \in Orderings(cand, mid + 1, hi) : Apart(a, x)}} :
                   a \in Orderings(cand, lo, mid)}

\* Query.limit(Math.min(limit, 100)), Query.orderDesc('count'),
\* Query.greaterThan('count', 0): the first records of the collection by
\* decreasing counter, in every order the store may return them (the query
\* does not order records of equal counter).  A record may stand at place i
\* when fewer than i records have a larger counter and at least i records
\* have a counter not smaller.
TopByCount(docs, limit) ==
  LET E == Eligible(docs)
      n == Min(Min(limit, 100), Cardinality(E))
      above == [d \in E |-> Cardinality({e \in E : docs[e].count > docs[d].count})]
      atLeast == [d \in E |-> Cardinality({e \in E : docs[e].count >= docs[d].count})]
      cand == [i \in 1..n |-> {d \in E : above[d] < i /\ i <= atLeast[d]}]
  IN Orderings(cand, 1, n)

\* result.documents.map(doc => ({...}))
TrendingMovie(docs, i) ==
  [id |-> i, searchTerm |-> docs[i].searchTerm, title |-> docs[i].title,
   poster_url |-> docs[i].poster_url, count |-> docs[i].count]

\* What getTrendingMovies(limit) may return when the store answers.
GetTrendingMovies(docs, limit) ==
  {[i \in DOMAIN q |-> TrendingMovie(docs, q[i])] : q \in TopByCount(docs, limit)}

LoadTrendingMoviesSurfacing(ok) ==
  /\ trendingPc = "loading"
  /\ trendingPc' = IF ok THEN "done" ELSE "failed"
  /\ IF ok
     THEN /\ trendingMovies' \in GetTrendingMovies(documents, TrendingLimit)
          /\ UNCHANGED uiVars
     ELSE /\ trendingMovies' = <<>>
          /\ errorMessage' = Msg("Failed to load movies", <<>>)
          /\ UNCHANGED <<movieList, isLoading, isRetrying, initialLoad>>
  /\ UNCHANGED <<phase, API_KEY, hookVars, calls, issued, ledgerVars, searches,
                 shownStale, burst>>

\* getTrendingMovies(5) resolves and loadTrendingMovies stores its result;
\* when the store fails getTrendingMovies logs the error and returns [].
LoadTrendingMovies(ok) ==
  /\ trendingPc = "loading"
  /\ trendingPc' = IF ok THEN "done" ELSE "failed"
  /\ IF ok
     THEN trendingMovies' \in GetTrendingMovies(documents, TrendingLimit)
     ELSE trendingMovies' = <<>>
  /\ UNCHANGED <<phase, API_KEY, hookVars, uiVars, calls, issued, ledgerVars, searches,
                 shownStale, burst>>

\* getTrendingMovies(limit) is called on its own (it is exported); its
\* result is kept in trendingMovies.
CallGetTrendingMovies(limit, ok) ==
  /\ phase = "init"
  /\ trendingPc' = IF ok THEN "done" ELSE "failed"
  /\ IF ok
     THEN trendingMovies' \in GetTrendingMovies(documents, limit)
     ELSE trendingMovies' = <<>>
  /\ UNCHANGED <<phase, API_KEY, hookVars, uiVars, calls, issued, ledgerVars,
                 searches, shownStale, burst>>

\* ---------------------------------------------------------- specifications
\* The application.
Next ==
  \/ Mount
  \/ Tick
  \/ \E s \in Inputs : Type(s)
  \/ DebounceFire
  \/ RetryFetch
  \/ \E c \in 1..MaxCalls, o \in Outcomes : ProviderRespond(c, o)
  \/ \E c \in 1..MaxCalls, ok \in BOOLEAN : LedgerFind(c, ok)
  \/ \E c \in 1..MaxCalls, ok \in BOOLEAN : LedgerWrite(c, ok)
  \/ \E c \in 1..MaxCalls : LedgerResolve(c)
  \/ \E ok \in BOOLEAN : LoadTrendingMovies(ok)

Spec == Init /\ [][Next]_vars

\* The ledger client under any sequence and interleaving of its calls.
NextLedger ==
  \/ \E s \in Inputs, m \in {MovieA, MovieB} : UpdateSearchCount(s, m)
  \/ \E c \in 1..MaxCalls, ok \in BOOLEAN : LedgerFind(c, ok)
  \/ \E c \in 1..MaxCalls, ok \in BOOLEAN : LedgerWrite(c, ok)
  \/ \E c \in 1..MaxCalls : LedgerResolve(c)

SpecLedger == InitLedger /\ [][NextLedger]_vars

\* The hook and the input that feeds it, up to its teardown.
NextDebounce ==
  \/ Mount
  \/ Tick
  \/ \E s \in Inputs : Type(s)
  \/ DebounceFire
  \/ Unmount

SpecDebounce == Init /\ [][NextDebounce]_vars

\* The application with a document store that answers every request.
NextStoreUp ==
  \/ Mount
  \/ Tick
  \/ \E s \in Inputs : Type(s)
  \/ DebounceFire
  \/ RetryFetch
  \/ \E c \in 1..MaxCalls, o \in Outcomes : ProviderRespond(c, o)
  \/ \E c \in 1..MaxCalls : LedgerFind(c, TRUE)
  \/ \E c \in 1..MaxCalls : LedgerWrite(c, TRUE)
  \/ \E c \in 1..MaxCalls : LedgerResolve(c)
  \/ LoadTrendingMovies(TRUE)

SpecStoreUp == Init /\ [][NextStoreUp]_vars

\* The application with a provider that answers every request with a results
\* list, the longer lists included (and a document store that answers every
\* request).
NextResponses ==
  \/ Mount
  \/ Tick
  \/ \E s \in Inputs : Type(s)
  \/ DebounceFire
  \/ RetryFetch
  \/ \E c \in 1..MaxCalls, o \in ResultOutcomes : ProviderRespond(c, o)
  \/ \E c \in 1..MaxCalls : LedgerFind(c, TRUE)
  \/ \E c \in 1..MaxCalls : LedgerWrite(c, TRUE)
  \/ \E c \in 1..MaxCalls : LedgerResolve(c)
  \/ LoadTrendingMovies(TRUE)

SpecResponses == Init /\ [][NextResponses]_vars

\* The application with words typed (or pasted) into the search input.
NextWords ==
  \/ Mount
  \/ Tick
  \/ \E s \in WordInputs : Type(s)
  \/ DebounceFire
  \/ RetryFetch
  \/ \E c \in 1..MaxCalls, o \in Outcomes : ProviderRespond(c, o)
  \/ \E c \in 1..MaxCalls, ok \in BOOLEAN : LedgerFind(c, ok)
  \/ \E c \in 1..MaxCalls, ok \in BOOLEAN : LedgerWrite(c, ok)
  \/ \E c \in 1..MaxCalls : LedgerResolve(c)
  \/ \E ok \in BOOLEAN : LoadTrendingMovies(ok)

SpecWords == Init /\ [][NextWords]_vars

\* The startup of the application on any small collection: the first commit
\* and the completion of its two tasks, in either order.
InitStartup == InitWith(SmallStores)

NextStartup ==
  \/ Mount
  \/ \E c \in 1..MaxCalls, o \in Outcomes : ProviderRespond(c, o)
  \/ \E ok \in BOOLEAN : LoadTrendingMovies(ok)

SpecStartup == InitStartup /\ [][NextStartup]_vars

\* getTrendingMovies under any collection and limit.
NextTrending == \E limit \in Limits, ok \in BOOLEAN : CallGetTrendingMovies(limit, ok)

SpecTrending == InitTrending /\ [][NextTrending]_vars

TypeOK ==
  /\ phase \in {"init", "mounted", "unmounted"}
  /\ searchTerm \in Inputs \cup WordInputs
  /\ Len(calls) <= MaxCalls
  /\ issued \in 0..MaxCalls
  /\ now \in 0..MaxClock

\* ------------------------------------------------------------------ claims
\* The steps of a Record call, recognised from the two states of a step.
FindStep(c) ==
  /\ c \in DOMAIN calls
  /\ Len(calls') = Len(calls)
  /\ calls[c].pc = "find"
  /\ calls'[c].pc \in {"update", "create"}

WriteStep(c) ==
  /\ c \in DOMAIN calls
  /\ Len(calls') = Len(calls)
  /\ calls[c].pc \in {"update", "create"}
  /\ calls'[c].pc = "written"

Normalized(term) == ToLowerCase(Trim(term))

\* The find step looks the record up by the trimmed, lower-cased term.
FindContract(c) ==
  LET term == Normalized(calls[c].query)
      there == {i \in DOMAIN documents : documents[i].searchTerm = term}
  IN /\ calls'[c].pc = "update" <=> there # {}
     /\ calls'[c].pc = "update" =>
          /\ calls'[c].found \in there
          /\ calls'[c].doc = documents[calls'[c].found]
     /\ documents' = documents

\* The update step: counter read by the find step plus one, snapshot and
\* last-seen refreshed, every other record and field as it was.
UpdateContract(c) ==
  LET i == calls[c].found
  IN /\ documents[i].searchTerm = Normalized(calls[c].query)
     /\ documents' = [documents EXCEPT ![i] =
                        [@ EXCEPT !.count = calls[c].doc.count + 1,
                                  !.title = calls[c].movie.title,
                                  !.poster_url = PosterUrl(calls[c].movie),
                                  !.lastSearched = calls[c].last]]
     /\ calls[c].last <= now

\* The create step without what it says of the two timestamps.
CreateContract(c) ==
  /\ Len(documents') = Len(documents) + 1
  /\ SubSeq(documents', 1, Len(documents)) = documents
  /\ LET d == documents'[Len(documents')]
     IN /\ d.searchTerm = Normalized(calls[c].query)
        /\ d.count = 1
        /\ d.title = calls[c].movie.title
        /\ d.poster_url = PosterUrl(calls[c].movie)

\* C1 as claimed: the new record's first-seen and last-seen are one and the
\* same instant.
CreatedAtOneInstant(c) ==
  LET d == documents'[Len(documents')]
  IN d.firstSearched = d.lastSearched /\ d.lastSearched <= now

\* What the code gives: two readings of the clock, the second not before
\* the first.
CreatedAtTwoReadings(c) ==
  LET d == documents'[Len(documents')]
  IN d.firstSearched <= d.lastSearched /\ d.lastSearched <= now

RecordStep(c, Stamps(_)) ==
  /\ FindStep(c) => FindContract(c)
  /\ WriteStep(c) /\ calls[c].pc = "update" => UpdateContract(c)
  /\ WriteStep(c) /\ calls[c].pc = "create" => CreateContract(c) /\ Stamps(c)
  /\ documents' # documents => \E w \in DOMAIN calls : WriteStep(w)

C2_OneRecordPerTerm ==
  \A i, j \in DOMAIN documents :
    documents[i].searchTerm = documents[j].searchTerm => i = j

\* C3 (as claimed): the counter of a record never decreases from one state
\* of the document store to the next.
C3_CounterNeverDecreases ==
  [][\A i \in DOMAIN documents : documents'[i].count >= documents[i].count]_vars

Quiescent == phase = "mounted" /\ calls = <<>>

\* C4 (as claimed): once all pipeline calls and their Record calls have
\* finished, the counter of the record of a term equals the number of
\* provider searches that succeeded with a non-empty query and at least one
\* result and whose query normalizes to that term.
C4_CounterEqualsSearches ==
  Quiescent =>
    \A t \in Terms \ {<<>>} :
      /\ searches[t] > 0 => \E i \in DOMAIN documents : documents[i].searchTerm = t
      /\ \A i \in DOMAIN documents :
           documents[i].searchTerm = t => documents[i].count = searches[t]

\* C5: the debounced output changes to a value only after the input has had
\* that value for the whole delay; a new input value cancels the update
\* pending for the previous one, so that the only pending update is the one
\* of the current value; tearing the hook down cancels the pending update
\* and the output never changes afterwards.
C5_Debounce ==
  /\ [](/\ \A h \in timers : h.value = Trim(searchTerm)
        /\ \A h \in Due(timers) : stableFor >= delay
        /\ Cardinality(timers) <= 1
        /\ phase = "unmounted" => timers = {})
  /\ [][/\ debouncedValue' # debouncedValue =>
             /\ debouncedValue' = Trim(searchTerm)
             /\ stableFor >= delay
             /\ phase = "mounted"
        /\ phase = "unmounted" => debouncedValue' = debouncedValue]_vars

\* C5 witness: the output had followed the input to a value, the input then
\* changed, and the hook was torn down with that update pending.
C5_Witness ==
  /\ phase = "unmounted"
  /\ timers = {}
  /\ debouncedValue # <<>>
  /\ debouncedValue # Trim(searchTerm)
  /\ ~burst.fired

\* The timer callback of the mounted hook ran.
IsFire == phase = "mounted" /\ phase' = "mounted" /\ timers # {} /\ timers' = {}

\* A request of the search effect (not a manual retry) was issued.
EffectFetch == issued' > issued /\ ~calls'[Len(calls')].isRetry

\* C6 (as claimed): with a credential configured, a burst of several input
\* changes that then settles for the delay issues exactly one provider
\* fetch, for the final trimmed value.
C6_OneFetchAsClaimed ==
  [][API_KEY /\ IsFire /\ burst.changes = "several" =>
       /\ issued' = issued + 1
       /\ calls'[Len(calls')].query = Trim(searchTerm)]_vars

\* C6 (amended): such a burst issues at most one provider fetch, for the
\* final trimmed value and for no intermediate one; it issues it exactly
\* when that value is not empty, differs from the debounced value the burst
\* started from, and a credential is configured.
C6_OneFetch ==
  [][/\ IsFire /\ burst.changes = "several" =>
          /\ issued' <= issued + 1
          /\ issued' = issued + 1 =>
               /\ calls' = Append(calls, calls'[Len(calls')])
               /\ calls'[Len(calls')].query = Trim(searchTerm)
               /\ calls'[Len(calls')].pc = "fetch"
          /\ issued' = issued + 1 <=>
               Trim(searchTerm) # <<>> /\ Trim(searchTerm) # debouncedValue /\ API_KEY
     /\ EffectFetch => phase = "init" \/ IsFire]_vars

\* C6 witness: a burst of several changes ended and its one fetch was issued.
C6_Witness == burst.changes = "several" /\ burst.fired /\ burst.issued = 1

\* C7: after the first load has completed a pipeline call with the empty
\* query issues no request and changes no state; the first pipeline call,
\* with the empty query and a credential, issues the discover request.
C7_EmptyQuery ==
  /\ [](~initialLoad => \A r \in BOOLEAN : FetchMoviesStart(<<>>, r, initialLoad, Current) = Current)
  /\ [][/\ (~initialLoad /\ debouncedValue' # debouncedValue /\ debouncedValue' = <<>>) =>
             UNCHANGED <<movieList, errorMessage, isLoading, isRetrying, initialLoad, calls, issued>>
        /\ (initialLoad /\ ~initialLoad' /\ debouncedValue = <<>>) => issued' = issued
        /\ (phase = "init" /\ phase' = "mounted" /\ API_KEY) =>
             /\ issued' = 1
             /\ Len(calls') = 1
             /\ calls'[1].query = <<>>
             /\ calls'[1].endpoint = "/discover/movie"
             /\ calls'[1].pc = "fetch"]_vars

\* C7 witness: a search was made and recorded, its results are shown, the
\* input was cleared and the debounce fired with the empty query: nothing
\* was fetched and the results are still shown.
C7_Witness ==
  /\ ~initialLoad
  /\ documents # <<>>
  /\ burst.fired /\ burst.issued = 0
  /\ debouncedValue = <<>>
  /\ movieList # <<>>
  /\ calls = <<>>

\* C8 (as claimed): while a pipeline call that reached the network is in
\* flight, exactly one of isLoading / isRetrying is true: isRetrying for a
\* manual retry, isLoading otherwise.
C8_OneBusyFlag ==
  \A c \in DOMAIN calls :
    calls[c].pipeline =>
      /\ isRetrying = calls[c].isRetry
      /\ isLoading = ~calls[c].isRetry

\* C9: a new fetch is issued without cancelling the fetches in flight, so
\* that the response of an earlier fetch can be applied after the response
\* of a later one.
C9_NoCancel ==
  [][issued' > issued => calls' = Append(calls, calls'[Len(calls')])]_vars

\* C9 witness: all calls have finished and what is shown came from a call
\* whose response arrived after the response of a call issued later.
C9_Witness ==
  /\ shownStale
  /\ calls = <<>>
  /\ phase = "mounted"

\* C10 (as claimed): the busy flags are cleared without waiting for
\* updateSearchCount: when no provider request is pending, a call that only
\* waits for the ledger does not keep isLoading or isRetrying set.
C10_FireAndForget ==
  (/\ \E c \in DOMAIN calls : calls[c].pipeline /\ calls[c].pc \in {"find", "update", "create", "written"}
   /\ \A c \in DOMAIN calls : calls[c].pc # "fetch")
  => ~isLoading /\ ~isRetrying

\* Steps of the pipeline call c, recognised from the two states of a step:
\* its provider response arrives with results and Record is called;
ResponseStep(c) ==
  /\ c \in DOMAIN calls
  /\ Len(calls') = Len(calls)
  /\ calls[c].pc = "fetch"
  /\ calls'[c].pc = "find"

\* a request of its Record call is rejected by the document store;
RecordFails(c) ==
  /\ c \in DOMAIN calls
  /\ calls[c].pipeline
  /\ calls[c].pc \in {"find", "update", "create"}
  /\ calls' = RemoveAt(calls, c)

\* its Record call returns the written document.
RecordSucceeds(c) ==
  /\ c \in DOMAIN calls
  /\ calls[c].pipeline
  /\ calls[c].pc = "written"
  /\ calls' = RemoveAt(calls, c)

\* What the end of a pipeline call leaves to the user, Record having
\* succeeded or not: the list and the message as they were, no busy flag.
EndsQuietly ==
  /\ movieList' = movieList
  /\ errorMessage' = errorMessage
  /\ ~isLoading' /\ ~isRetrying'
  /\ documents' = documents

RetryOffered == phase = "mounted" /\ ~isLoading /\ errorMessage # EmptyMsg /\ ~isRetrying

\* C12 (as claimed): whenever a message is displayed after a pipeline call
\* (a credential being configured), invoking retryFetch issues a new provider
\* request for the current debounced query, empty or not.
C12_Retryable ==
  (RetryOffered /\ API_KEY) =>
    LET st == FetchMoviesStart(debouncedValue, TRUE, initialLoad, Current)
    IN /\ Len(st.calls) = Len(calls) + 1
       /\ st.calls[Len(st.calls)].query = debouncedValue
       /\ st.calls[Len(st.calls)].pc = "fetch"

\* C13: with no provider credential configured, every pipeline call only
\* sets the configuration message: no request is issued, no busy flag is
\* set, no ledger call is made and nothing else changes.
C13_NoCredential ==
  /\ [](~API_KEY =>
          /\ calls = <<>> /\ issued = 0
          /\ ~isLoading /\ ~isRetrying
          /\ documents = <<>> /\ movieList = <<>>
          /\ phase = "mounted" => errorMessage = ConfigMsg
          /\ \A q \in Inputs, r \in BOOLEAN :
               FetchMoviesStart(Trim(q), r, initialLoad, Current)
                 = [Current EXCEPT !.errorMessage = ConfigMsg])
  /\ [][~API_KEY => /\ errorMessage' \in {errorMessage, ConfigMsg}
                    /\ UNCHANGED <<movieList, isLoading, isRetrying, calls, issued, documents>>]_vars

\* C13 witness: without a credential a non-empty query was typed and
\* debounced, its pipeline call was made and left the configuration message.
C13_Witness ==
  /\ ~API_KEY
  /\ burst.fired
  /\ debouncedValue # <<>>
  /\ errorMessage = ConfigMsg
  /\ issued = 0

\* The records of a collection with a positive counter.
Positive(docs) == {i \in DOMAIN docs : docs[i].count >= 1}

\* What every result r of getTrendingMovies on the collection docs satisfies:
\* its entries are different records of docs with a positive counter, in
\* non-increasing order of counter, and no record left out has a larger
\* counter than one returned.
TrendingOrdered(docs, r) ==
  /\ \A i \in DOMAIN r : r[i].id \in Positive(docs) /\ r[i].count = docs[r[i].id].count
  /\ \A i, j \in DOMAIN r : i < j => r[i].id # r[j].id /\ r[i].count >= r[j].count
  /\ \A d \in Positive(docs) :
       (\A i \in DOMAIN r : r[i].id # d) => \A i \in DOMAIN r : r[i].count >= docs[d].count

\* C14 (as claimed): with N >= limit records of positive counter
\* getTrendingMovies(limit) returns exactly limit records, for every positive
\* limit; with fewer it returns all of them; the result is ordered by
\* non-increasing counter and holds no record with counter <= 0.
C14_TopTrendingAsClaimed ==
  \A limit \in Limits : \A r \in GetTrendingMovies(documents, limit) :
    /\ TrendingOrdered(documents, r)
    /\ Len(r) = Min(limit, Cardinality(Positive(documents)))

\* C14 (amended): the same with the limit capped at 100: the result holds
\* min(limit, 100, N) records.
C14_TopTrending ==
  /\ [](\A limit \in Limits : \A r \in GetTrendingMovies(documents, limit) :
          /\ TrendingOrdered(documents, r)
          /\ Len(r) = Min(Min(limit, 100), Cardinality(Positive(documents))))
  /\ [][trendingMovies' # trendingMovies =>
          \/ trendingMovies' = <<>>
          \/ \E limit \in Limits : trendingMovies' \in GetTrendingMovies(documents, limit)]_vars

\* C14 witness: of three records, one of them with counter 0 and the others
\* with different counters, the call with limit 1 returned the larger one.
C14_Witness ==
  /\ Len(documents) = 3
  /\ Cardinality(Positive(documents)) = 2
  /\ Len(trendingMovies) = 1
  /\ \E d \in Positive(documents) : documents[d].count < trendingMovies[1].count

\* C15: when the document store fails, getTrendingMovies returns the empty
\* list, and the trending load leaves errorMessage, movieList, the busy
\* flags, the calls in flight and the collection as they are.
C15_TrendingFailure ==
  [][(trendingPc' = "failed" /\ trendingPc # "failed") =>
       /\ trendingMovies' = <<>>
       /\ UNCHANGED <<errorMessage, movieList, isLoading, isRetrying, initialLoad,
                      calls, issued, documents>>]_vars

\* C15 witness: the trending load has failed and the application shows the
\* movies it fetched, with no message.
C15_Witness ==
  /\ phase = "mounted"
  /\ trendingPc = "failed"
  /\ trendingMovies = <<>>
  /\ movieList # <<>>
  /\ errorMessage = EmptyMsg
  /\ calls = <<>>

\* The non-empty result lists of the provider.
NonEmptyLists == (ResultLists \cup LongResultLists) \ {<<>>}

\* The places of the results that carry a poster reference.
WithPoster(r) == {i \in DOMAIN r : r[i].poster_path # NULL}

\* shown is exactly the results of r that carry a poster, in the order of r.
KeptInOrder(r, shown) ==
  /\ Len(shown) = Cardinality(WithPoster(r))
  /\ \E f \in [DOMAIN shown -> WithPoster(r)] :
       /\ \A i, j \in DOMAIN shown : i < j => f[i] < f[j]
       /\ \A i \in DOMAIN shown : shown[i] = r[f[i]]

\* What is shown for the non-empty result list r.
ShownFor(r, shown) ==
  /\ shown # <<>>
  /\ IF WithPoster(r) # {} THEN KeptInOrder(r, shown) ELSE shown = r

FetchPending(cs) == {i \in DOMAIN cs : cs[i].pc = "fetch"}

\* The response of a pending fetch arrives.
ResponseArrives == Cardinality(FetchPending(calls')) < Cardinality(FetchPending(calls))

\* C16: for every provider response with a non-empty results list, movieList
\* becomes the results that carry a poster reference, in response order, if
\* there is any, and the full list otherwise; it is never empty after such
\* a response.  (What setMovieList is given does not depend on the state:
\* it is compared with the claim for every list once, before the first step.)
C16_PosterFilter ==
  /\ [](phase = "init" => \A r \in NonEmptyLists : ShownFor(r, ShownMovies(r)))
  /\ [][/\ \A c \in 1..MaxCalls :
             ResponseStep(c) =>
               \E r \in NonEmptyLists : r[1] = calls'[c].movie /\ ShownFor(r, movieList')
        /\ (ResponseArrives /\ errorMessage' = EmptyMsg) =>
             \E r \in NonEmptyLists : ShownFor(r, movieList')]_vars

\* C16 witness: of three results the first and the last carry a poster and
\* are shown, in that order, and the first was recorded.
C16_Witness ==
  /\ movieList = <<MovieC, MovieA>>
  /\ \E i \in DOMAIN documents : documents[i].title = MovieC.title

\* The call c is the one that ends in this step (the others stay, in order).
Ended(c) ==
  /\ Len(calls') = Len(calls) - 1
  /\ \A i \in DOMAIN calls' :
       LET j == IF i < c THEN i ELSE i + 1
       IN [calls'[i] EXCEPT !.overtaken = FALSE] = [calls[j] EXCEPT !.overtaken = FALSE]

\* The pipeline call c, made with a non-empty query, ends with the
\* no-results message: the provider answered 2xx with an empty or missing
\* results list.
NoResultsStep(c) ==
  /\ c \in DOMAIN calls
  /\ calls[c].pc = "fetch"
  /\ calls[c].query # <<>>
  /\ Ended(c)
  /\ errorMessage'.kind = "No movies found for"

\* movieList is emptied, the message quotes the query and no Record call is made.
NoResultsReported(c) ==
  /\ movieList' = <<>>
  /\ errorMessage' = NoResultsMsg(calls[c].query)
  /\ Includes(MessageText(errorMessage'), calls[c].query)
  /\ documents' = documents
  /\ \A i \in DOMAIN calls' : calls'[i].pc = "find" => \E j \in DOMAIN calls : calls[j] = calls'[i]

\* C17 (as claimed): for every non-empty query, a 2xx answer with an empty or
\* missing results list empties movieList, shows a message that contains the
\* query, makes no ledger call, and the message shown is never classified as
\* a network error by getErrorType.
C17_NoResults ==
  [][\A c \in 1..MaxCalls :
       NoResultsStep(c) =>
         /\ NoResultsReported(c)
         /\ GetErrorType(MessageText(errorMessage')) # "network"]_vars

\* The answers of the provider with a status that is not 2xx.
HttpFailures == {o \in Outcomes : o.type = "http"}

\* C18: every non-2xx status is a failure whose error carries the numeric
\* status code; it empties movieList and shows a message; for HTTP 401 the
\* message is the invalid-credential message and not the generic one.
C18_HttpFailure ==
  /\ [](phase = "init" =>
          \A o \in HttpFailures :
            /\ o.status \notin 200..299
            /\ Includes(ErrorText(o), Digits(o.status)))
  /\ [][\A c \in 1..MaxCalls, o \in HttpFailures :
          (c \in DOMAIN calls /\ Ended(c) /\ ProviderRespond(c, o)) =>
            /\ movieList' = <<>>
            /\ errorMessage' # EmptyMsg
            /\ documents' = documents
            /\ ~isLoading' /\ ~isRetrying'
            /\ o.status = 401 =>
                 /\ MessageText(errorMessage') = TextInvalidCredentials
                 /\ MessageText(errorMessage') # TextFailedToLoad]_vars

\* C18 witness: a search was answered with 401 (the only answer that leaves
\* the invalid-credential message) and the list is empty.
C18_Witness ==
  /\ debouncedValue # <<>>
  /\ calls = <<>>
  /\ MessageText(errorMessage) = TextInvalidCredentials
  /\ movieList = <<>>

\* An input that consists of whitespace only.
OnlyWhitespace(s) == s # <<>> /\ \A i \in DOMAIN s : s[i] = " "

\* C19: a search input of whitespace only is handled as the empty input:
\* the value given to the debounce is the empty query, so that the debounced
\* query becomes (or stays) empty, no search-by-title request is issued and
\* no ledger call is made for it.
C19_WhitespaceIsEmpty ==
  /\ [](/\ OnlyWhitespace(searchTerm) => \A h \in timers : h.value = <<>>
        /\ \A c \in DOMAIN calls :
             /\ ~OnlyWhitespace(calls[c].query)
             /\ calls[c].endpoint = "/search/movie" => calls[c].query # <<>>
        /\ \A d \in DOMAIN documents : documents[d].searchTerm # <<>>)
  /\ [][/\ (OnlyWhitespace(searchTerm') /\ searchTerm' # searchTerm) =>
             /\ timers' = IF Trim(searchTerm) = <<>> THEN timers
                          ELSE {[value |-> <<>>, remaining |-> delay]}
             /\ UNCHANGED <<debouncedValue, movieList, errorMessage, isLoading, isRetrying,
                            calls, issued, documents>>
        /\ (OnlyWhitespace(searchTerm) /\ IsFire) =>
             /\ debouncedValue' = <<>>
             /\ UNCHANGED <<movieList, errorMessage, isLoading, isRetrying,
                            calls, issued, documents>>]_vars

\* C19 witness: after a recorded search the input was replaced by a blank,
\* the debounce fired, the debounced query is empty and nothing was fetched.
C19_Witness ==
  /\ OnlyWhitespace(searchTerm)
  /\ burst.fired /\ burst.issued = 0
  /\ debouncedValue = <<>>
  /\ documents # <<>>
  /\ calls = <<>>

\* movieList is set as a whole: to the empty list or to what is shown for
\* one provider response.
SetWholesale ==
  movieList' # movieList =>
    \/ movieList' = <<>>
    \/ \E r \in NonEmptyLists : ShownFor(r, movieList')

\* C20 (as claimed): when a new fetch starts the results of the previous
\* fetch are discarded, so that movieList does not hold them while the new
\* fetch is in flight; and movieList is only ever replaced as a whole by
\* the records of a single provider response.
C20_ReplacedWholesale ==
  [][/\ issued' > issued => movieList' = <<>>
     /\ SetWholesale]_vars

\* What the initial fetch (empty query) leaves when the provider answers o.
InitialFetchLeaves(o) ==
  /\ movieList' = IF o.type = "ok" THEN ShownMovies(o.results) ELSE <<>>
  /\ errorMessage' = IF o.type = "ok" /\ o.results # <<>> THEN errorMessage
                     ELSE IF o.type \in {"ok", "noResultsField"} THEN NoResultsMsg(<<>>)
                     ELSE UserMessage(o)
  /\ ~isLoading' /\ ~isRetrying' /\ ~initialLoad'
  /\ calls' = <<>>

\* What the trending load leaves when the document store answers or fails.
TrendingLoadLeaves(ok) ==
  /\ trendingPc' = IF ok THEN "done" ELSE "failed"
  /\ IF ok THEN trendingMovies' \in GetTrendingMovies(documents, TrendingLimit)
     ELSE trendingMovies' = <<>>

\* The state in which both startup tasks have finished, the provider having
\* answered o and the document store having answered or failed.
BothFinishedWith(o, ok) ==
  /\ movieList = IF o.type = "ok" THEN ShownMovies(o.results) ELSE <<>>
  /\ errorMessage = IF o.type = "ok" /\ o.results # <<>> THEN EmptyMsg
                    ELSE IF o.type \in {"ok", "noResultsField"} THEN NoResultsMsg(<<>>)
                    ELSE UserMessage(o)
  /\ ~isLoading /\ ~isRetrying /\ ~initialLoad
  /\ trendingPc = IF ok THEN "done" ELSE "failed"
  /\ IF ok THEN trendingMovies \in GetTrendingMovies(documents, TrendingLimit)
     ELSE trendingMovies = <<>>

\* C21: the two startup tasks write disjoint state and neither reads what
\* the other writes: whether or not the other task has finished, the
\* initial fetch leaves movieList, errorMessage, the busy flags and
\* initialLoad as its provider answer alone determines and leaves
\* trendingMovies alone, and the trending load leaves trendingMovies as the
\* collection and the store's answer alone determine and nothing else; so
\* both completion orders reach the same state: once both have finished the
\* state is the one given by the provider's answer and the store's answer.
C21_StartupTasks ==
  /\ []((API_KEY /\ phase = "mounted" /\ calls = <<>> /\ trendingPc # "loading") =>
          \E o \in Outcomes, ok \in BOOLEAN : BothFinishedWith(o, ok))
  /\ [][/\ \A o \in Outcomes :
             (calls # <<>> /\ ProviderRespond(1, o)) =>
               /\ InitialFetchLeaves(o)
               /\ UNCHANGED <<trendingMovies, trendingPc, documents, now, hookVars, phase>>
        /\ \A ok \in BOOLEAN :
             (trendingPc = "loading" /\ LoadTrendingMovies(ok)) =>
               /\ TrendingLoadLeaves(ok)
               /\ UNCHANGED <<movieList, errorMessage, isLoading, isRetrying, initialLoad,
                              calls, issued, documents, now, hookVars, phase>>
        /\ trendingMovies' # trendingMovies => trendingPc = "loading" /\ trendingPc' # "loading"]_vars

\* C21 witness: both startup tasks have finished: the popular movies and
\* two trending records are shown.
C21_Witness ==
  /\ phase = "mounted"
  /\ calls = <<>> /\ issued = 1
  /\ trendingPc = "done"
  /\ Len(trendingMovies) >= 2
  /\ movieList # <<>>
  /\ errorMessage = EmptyMsg

\* C22 (as claimed): whenever errorMessage is non-empty, movieList is empty.
C22_MessageOrMovies ==
  errorMessage # EmptyMsg => movieList = <<>>
====
